---- MODULE Spec2Model ----
(***************************************************************************)
(* Model of the esbuild-obfuscator plugin: the onEnd callback registered   *)
(* by obfuscatorPlugin(options).setup(build).                              *)
(*                                                                         *)
(* Text is modelled as a sequence of one-character strings, so that        *)
(* String.prototype.endsWith and path.resolve are computed on characters.  *)
(* File content is a sequence of blocks of 64 KiB, and sizes, positions    *)
(* and buffer lengths are counted in blocks; obfuscate(code, options)      *)
(* pushes a block holding the options on the front of the content (an      *)
(* uninterpreted, injective transformation), keeps the empty text empty    *)
(* and throws on text that does not parse.                                 *)
(*                                                                         *)
(* fs.readFile and fs.writeFile are not atomic: a read opens the file,     *)
(* takes its size and reads buffer after buffer (512 KiB at most, 64 KiB   *)
(* when the size taken is 0) until a read returns nothing, falls short or  *)
(* brings the total to exactly the size taken, then closes the file; a     *)
(* write opens the file, which truncates it, writes 512 KiB at most at a   *)
(* time at its own position and closes the file. Steps of other tasks may  *)
(* fall between any two of these.                                          *)
(***************************************************************************)
EXTENDS Naturals, Integers, Sequences, FiniteSets, TLC

\* ------------------------------------------------------------------ bounds

\* Largest number of keys in result.metafile.outputs.
MaxOutputs == 2
\* Largest number of task promises pending at once, over all invocations.
MaxPending == 2
\* Number of build completions (onEnd calls) explored in a watch session.
MaxRebuilds == 2

\* ------------------------------------------------------------------- text

Slash == "/"
Dot == <<".">>
DotDot == <<".", ".">>

\* The suffix tested by outputFile.endsWith('.js').
JsSuffix == <<".", "j", "s">>

\* The message passed to console.error.
MetafileMessage == "Metafile is required for the obfuscator plugin to work."

\* String.prototype.includes(searchString): the callback with the suffix test
\* replaced by a substring test.
includes(s, searchString) ==
    \E i \in 1 .. Len(s) :
        /\ i + Len(searchString) - 1 <= Len(s)
        /\ SubSeq(s, i, i + Len(searchString) - 1) = searchString

\* String.prototype.endsWith(searchString).
endsWith(s, searchString) ==
    /\ Len(s) >= Len(searchString)
    /\ SubSeq(s, Len(s) - Len(searchString) + 1, Len(s)) = searchString

\* s.split('/'): the segments between slashes, empty segments included.
RECURSIVE splitFrom(_, _, _)
splitFrom(s, i, seg) ==
    IF i > Len(s) THEN <<seg>>
    ELSE IF s[i] = Slash THEN <<seg>> \o splitFrom(s, i + 1, <<>>)
    ELSE splitFrom(s, i + 1, Append(seg, s[i]))

split(s) == splitFrom(s, 1, <<>>)

\* normalizeString of node:path (posix): '.' and empty segments are dropped,
\* '..' removes the segment before it and stops at the root.
RECURSIVE normalizeSegments(_, _)
normalizeSegments(segs, acc) ==
    IF segs = <<>> THEN acc
    ELSE IF Head(segs) = <<>> \/ Head(segs) = Dot
         THEN normalizeSegments(Tail(segs), acc)
    ELSE IF Head(segs) = DotDot
         THEN normalizeSegments(Tail(segs),
                  IF acc = <<>> THEN acc ELSE SubSeq(acc, 1, Len(acc) - 1))
    ELSE normalizeSegments(Tail(segs), Append(acc, Head(segs)))

RECURSIVE join(_)
join(segs) ==
    IF segs = <<>> THEN <<>>
    ELSE <<Slash>> \o Head(segs) \o join(Tail(segs))

\* process.cwd(): the directory the build runs in.
Cwd == <<"/", "w">>

isAbsolute(p) == Len(p) > 0 /\ p[1] = Slash

\* path.resolve(outputFile): an absolute, normalized path; a relative
\* argument is taken against the working directory.
pathResolve(p) ==
    LET segs == normalizeSegments(
                    split(IF isAbsolute(p) THEN p ELSE Cwd \o <<Slash>> \o p), <<>>)
    IN  IF segs = <<>> THEN <<Slash>> ELSE join(segs)

\* ------------------------------------------------------- the inputs explored

KeyA      == <<"a", ".", "j", "s">>
KeyDotA   == <<".", "/", "a", ".", "j", "s">>
KeyDirB   == <<"d", "/", "b", ".", "j", "s">>
KeyCss    == <<"a", ".", "c", "s", "s">>
KeyMap    == <<"a", ".", "j", "s", ".", "m", "a", "p">>
KeyMjs    == <<"a", ".", "m", "j", "s">>

\* Keys a build's metafile.outputs may carry.
OutputKeys == {KeyA, KeyDotA, KeyDirB, KeyCss, KeyMap, KeyMjs}

\* Files on disk: every path an output key names.
Files == {pathResolve(k) : k \in OutputKeys}

\* Node's transfer sizes, in blocks of 64 KiB: the buffer of readFile for a
\* file of known size (512 KiB), its buffer when the size taken is 0
\* (64 KiB), and the most writeFile hands to one write (512 KiB).
kReadFileBufferLength == 8
kReadFileUnknownBufferLength == 1
kWriteFileMaxChunkSize == 8

MathMin(a, b) == IF a < b THEN a ELSE b

\* File contents, in blocks: Source is one block longer than a read buffer.
Empty  == <<>>
Source == <<"src1", "src2", "src3", "src4", "src5", "src6", "src7", "src8", "src9">>
Short  == <<"src">>
Broken == <<"syntax error">>

\* The bytes a file has where a write went beyond its end.
Hole == "zeros"

RECURSIVE holes(_)
holes(n) == IF n <= 0 THEN <<>> ELSE <<Hole>> \o holes(n - 1)

\* write(fd, chunk) at position pos of a file: the blocks of the chunk
\* replace what is there; behind the end of the file the gap reads as zeros.
writeAt(content, pos, chunk) ==
    IF pos <= Len(content) + 1
    THEN SubSeq(content, 1, pos - 1) \o chunk
         \o (IF pos + Len(chunk) <= Len(content)
             THEN SubSeq(content, pos + Len(chunk), Len(content))
             ELSE <<>>)
    ELSE content \o holes(pos - 1 - Len(content)) \o chunk

\* Values of the options argument of obfuscatorPlugin; "undefined" is the
\* call without argument.
OptionArgs == {"undefined", "mangled"}

\* The default parameter value: options = {}.
defaultOptions(arg) == IF arg = "undefined" THEN "{}" ELSE arg

\* ----------------------------------------------------- the obfuscator library

\* obfuscate(code, options) throws when the code does not parse.
obfuscateThrows(code, opts) == code # <<>> /\ code[Len(code)] = "syntax error"

\* obfuscate(code, options).getObfuscatedCode() for code that parses.
obfuscate(code, opts) == IF code = <<>> THEN <<>> ELSE <<opts>> \o code

\* ------------------------------------------------------------------- state

VARIABLES
    given,       \* the argument obfuscatorPlugin was called with
    options,     \* the options parameter of obfuscatorPlugin, default applied
    fs,          \* file path -> content
    cur,         \* number of onEnd calls made so far
    result,      \* the BuildResult of the latest onEnd call
    hook,        \* state of the promise the latest onEnd call returned
    tasks,       \* invocation -> output key -> the promise of its map callback
    console,     \* messages the latest onEnd call passed to console.error
    pre          \* fs at the moment the latest onEnd call was made

vars == <<given, options, fs, cur, result, hook, tasks, console, pre>>

Invocations == DOMAIN tasks

NoResult == [errors |-> <<>>, metafile |-> [defined |-> FALSE, outputs |-> {}]]

\* No promise: the key is not among the outputs of the invocation.
\* size: the file size readFile took when it opened the file; code: the
\* blocks read so far, then the text delivered; position: the number of
\* blocks writeFile has written.
NoTask ==
    [st |-> "none", filePath |-> <<>>, size |-> 0, code |-> <<>>,
     obfuscatedCode |-> <<>>, position |-> 0,
     reads |-> 0, calls |-> 0, writes |-> 0, error |-> "none"]

\* reading: readFile called; opened: file open for reading; read: last read
\* made, file not yet closed; writing: writeFile called; truncated: file open
\* for writing.
Pending == {"reading", "opened", "read", "writing", "truncated"}
Settled == {"fulfilled", "rejected"}

\* Build results handed to the callback: a build without errors with any
\* manifest or none, a failed build with a manifest or none.
Results ==
    {[errors |-> <<>>, metafile |-> [defined |-> TRUE, outputs |-> o]] :
        o \in {s \in SUBSET OutputKeys : Cardinality(s) <= MaxOutputs}}
    \cup
    {[errors |-> <<"error">>, metafile |-> [defined |-> TRUE, outputs |-> {KeyA, KeyCss}]]}
    \cup
    {[errors |-> e, metafile |-> [defined |-> FALSE, outputs |-> {}]] :
        e \in {<<>>, <<"error">>}}

\* One build: the plugin is created and esbuild calls the hook once, at the
\* end of the build.
Init ==
    /\ given \in OptionArgs
    /\ options = defaultOptions(given)
    /\ fs \in {f \in [Files -> {Empty, Source, Broken}] :
                 /\ f[pathResolve(KeyCss)] = Source
                 /\ f[pathResolve(KeyMap)] = Source
                 /\ f[pathResolve(KeyMjs)] = Source
                 /\ f[pathResolve(KeyA)] # Empty
                 /\ f[pathResolve(KeyDirB)] # Broken}
    /\ cur = 0
    /\ result = NoResult
    /\ hook = "notcalled"
    /\ tasks = [i \in {1} |-> [k \in OutputKeys |-> NoTask]]
    /\ console = <<>>
    /\ pre = fs

\* -------------------------------------------------------------- the callback

\* The callback with its two early returns in the other order.
onEndBranchMetafileFirst(r) ==
    IF ~r.metafile.defined THEN "diagnostic"
    ELSE IF Len(r.errors) # 0 THEN "skip"
    ELSE "fanout"

\* The callback returning on a missing metafile without console.error.
onEndBranchSilent(r) ==
    IF Len(r.errors) # 0 \/ ~r.metafile.defined THEN "skip" ELSE "fanout"

\* A callback that remembers it has reported the missing metafile: only the
\* first call of the registered hook reports it.
onEndBranchWarnsOnce(r) ==
    IF Len(r.errors) # 0 THEN "skip"
    ELSE IF ~r.metafile.defined THEN (IF cur = 0 THEN "diagnostic" ELSE "skip")
    ELSE "fanout"

\* The two early returns of the callback, in the order the code tests them.
onEndBranch(r) ==
    IF Len(r.errors) # 0 THEN "skip"
    ELSE IF ~r.metafile.defined THEN "diagnostic"
    ELSE "fanout"

\* A map callback that yields before it calls readFile: the joint wait
\* begins with no read issued.
mapCallbackYieldsFirst(outputFile) ==
    IF endsWith(outputFile, JsSuffix)
    THEN [NoTask EXCEPT !.st = "reading",
                        !.filePath = pathResolve(outputFile)]
    ELSE [NoTask EXCEPT !.st = "fulfilled"]

\* The body of the map callback up to its first await: a key ending in
\* '.js' has its readFile issued, any other key's promise is fulfilled at once.
mapCallback(outputFile) ==
    IF endsWith(outputFile, JsSuffix)
    THEN [NoTask EXCEPT !.st = "reading",
                        !.filePath = pathResolve(outputFile),
                        !.reads = 1]
    ELSE [NoTask EXCEPT !.st = "fulfilled"]

\* Promise.allSettled in place of Promise.all: never rejected.
promiseAllSettled(h, ts) ==
    IF h # "awaiting" THEN h
    ELSE IF \A k \in OutputKeys : ts[k].st \in {"none"} \cup Settled THEN "resolved"
    ELSE "awaiting"

\* A joint wait that is fulfilled by the first fulfilled promise.
promiseAny(h, ts) ==
    IF h # "awaiting" THEN h
    ELSE IF \E k \in OutputKeys : ts[k].st = "rejected" THEN "rejected"
    ELSE IF \E k \in OutputKeys : ts[k].st = "fulfilled" THEN "resolved"
    ELSE IF \A k \in OutputKeys : ts[k].st = "none" THEN "resolved"
    ELSE "awaiting"

\* A joint wait that swallows rejections: it stays pending when a promise
\* is rejected.
promiseAllSwallowsRejection(h, ts) ==
    IF h # "awaiting" THEN h
    ELSE IF \A k \in OutputKeys : ts[k].st \in {"none", "fulfilled"} THEN "resolved"
    ELSE "awaiting"

\* Promise.all over the task promises, seen from the awaiting callback:
\* rejected as soon as one is rejected, fulfilled when all are fulfilled.
promiseAll(h, ts) ==
    IF h # "awaiting" THEN h
    ELSE IF \E k \in OutputKeys : ts[k].st = "rejected" THEN "rejected"
    ELSE IF \A k \in OutputKeys : ts[k].st \in {"none", "fulfilled"} THEN "resolved"
    ELSE "awaiting"

\* Promises of earlier invocations that have settled are dropped when the
\* next build completes; those still pending go on.
dropSettled(ts) ==
    [k \in OutputKeys |-> IF ts[k].st \in Pending THEN ts[k] ELSE NoTask]

\* The keys of a result for which the callback starts a read.
launchedKeys(r) ==
    IF onEndBranch(r) = "fanout"
    THEN {k \in r.metafile.outputs : endsWith(k, JsSuffix)}
    ELSE {}

\* Task promises of all invocations that are still pending.
pendingCount ==
    Cardinality({ik \in Invocations \X OutputKeys : tasks[ik[1]][ik[2]].st \in Pending})

\* build.onEnd callback, run to its first await.
OnEnd(r) ==
    /\ cur < Cardinality(Invocations)
    /\ hook # "awaiting"
    /\ pendingCount + Cardinality(launchedKeys(r)) <= MaxPending
    /\ cur' = cur + 1
    /\ result' = r
    /\ pre' = fs
    /\ UNCHANGED <<given, options, fs>>
    /\ LET b == onEndBranch(r)
           launched == [k \in OutputKeys |->
                           IF b = "fanout" /\ k \in r.metafile.outputs
                           THEN mapCallback(k) ELSE NoTask]
       IN  /\ tasks' = [i \in Invocations |->
                           IF i = cur' THEN launched
                           ELSE dropSettled(tasks[i])]
           /\ console' = IF b = "diagnostic" THEN <<MetafileMessage>> ELSE <<>>
           /\ hook' = IF b = "fanout" THEN promiseAll("awaiting", launched)
                      ELSE "resolved"

\* A task promise changes state; the joint wait of its invocation follows.
\* The promise of an earlier call has settled already and stays as it is.
Settle(i, k, t) ==
    /\ tasks' = [tasks EXCEPT ![i][k] = t]
    /\ hook' = IF i = cur THEN promiseAll(hook, tasks'[i]) ELSE hook

\* fs.readFile(filePath, 'utf8') opens the file and takes its size.
ReadOpen(i, k) ==
    /\ tasks[i][k].st = "reading"
    /\ Settle(i, k, [tasks[i][k] EXCEPT !.st = "opened",
                                        !.size = Len(fs[tasks[i][k].filePath])])
    /\ UNCHANGED <<given, options, fs, cur, result, console, pre>>

\* The length of the buffer readFile allocates for the size it took.
bufferLength(size) ==
    IF size = 0 THEN kReadFileUnknownBufferLength
    ELSE MathMin(size, kReadFileBufferLength)

\* What the next read of readFile returns: the blocks the file has at the
\* position reached, a buffer's length at most, nothing at the end of the file.
bytesRead(t) ==
    LET file == fs[t.filePath]
        to   == MathMin(Len(t.code) + bufferLength(t.size), Len(file))
    IN  IF Len(t.code) < to THEN SubSeq(file, Len(t.code) + 1, to) ELSE <<>>

\* The text readFile holds after its next read.
nextRead(t) == t.code \o bytesRead(t)

\* readFile stops reading when a read returns nothing, when the total read
\* is exactly the size taken at opening, or, for a size other than 0, when
\* a read does not fill the buffer.
lastRead(t) ==
    \/ Len(bytesRead(t)) = 0
    \/ Len(nextRead(t)) = t.size
    \/ (Len(bytesRead(t)) # bufferLength(t.size) /\ t.size # 0)

\* readFile makes a read and goes on reading.
ReadChunk(i, k) ==
    /\ tasks[i][k].st = "opened"
    /\ ~lastRead(tasks[i][k])
    /\ Settle(i, k, [tasks[i][k] EXCEPT !.code = nextRead(tasks[i][k])])
    /\ UNCHANGED <<given, options, fs, cur, result, console, pre>>

\* readFile makes its last read: it holds the text it will deliver.
ReadFile(i, k) ==
    /\ tasks[i][k].st = "opened"
    /\ lastRead(tasks[i][k])
    /\ Settle(i, k, [tasks[i][k] EXCEPT !.st = "read",
                                        !.code = nextRead(tasks[i][k])])
    /\ UNCHANGED <<given, options, fs, cur, result, console, pre>>

\* fs.readFile fails, at opening, at a read or at closing the file after
\* the last read: the task promise is rejected and no text is delivered.
ReadFileFails(i, k) ==
    /\ tasks[i][k].st \in {"reading", "opened", "read"}
    /\ Settle(i, k, [tasks[i][k] EXCEPT !.st = "rejected", !.error = "read",
                                        !.size = 0, !.code = <<>>])
    /\ UNCHANGED <<given, options, fs, cur, result, console, pre>>

\* The map callback writing back the text it read.
continuationWritesCode(t, opts) ==
    [t EXCEPT !.st = "writing", !.obfuscatedCode = t.code,
              !.calls = t.calls + 1, !.writes = t.writes + 1]

\* The map callback calling obfuscate(code) without the plugin's options.
continuationWithoutOptions(t, opts) ==
    IF obfuscateThrows(t.code, "{}")
    THEN [t EXCEPT !.st = "rejected", !.error = "transform", !.calls = t.calls + 1]
    ELSE [t EXCEPT !.st = "writing",
                   !.obfuscatedCode = obfuscate(t.code, "{}"),
                   !.calls = t.calls + 1,
                   !.writes = t.writes + 1]

\* The map callback after its read: obfuscate(code, options) is called with
\* the text read; when it throws the promise is rejected, otherwise
\* fs.writeFile(filePath, obfuscatedCode, 'utf8') is issued.
continuation(t, opts) ==
    IF obfuscateThrows(t.code, opts)
    THEN [t EXCEPT !.st = "rejected", !.error = "transform", !.calls = t.calls + 1]
    ELSE [t EXCEPT !.st = "writing",
                   !.obfuscatedCode = obfuscate(t.code, opts),
                   !.calls = t.calls + 1,
                   !.writes = t.writes + 1]

\* readFile closes the file and delivers the text: the rest of the map
\* callback runs up to the await of the write.
Obfuscate(i, k) ==
    /\ tasks[i][k].st = "read"
    /\ Settle(i, k, continuation(tasks[i][k], options))
    /\ UNCHANGED <<given, options, fs, cur, result, console, pre>>

\* fs.writeFile(filePath, obfuscatedCode, 'utf8') opens the file for
\* writing, which truncates it.
WriteOpen(i, k) ==
    /\ tasks[i][k].st = "writing"
    /\ fs' = [fs EXCEPT ![tasks[i][k].filePath] = Empty]
    /\ Settle(i, k, [tasks[i][k] EXCEPT !.st = "truncated"])
    /\ UNCHANGED <<given, options, cur, result, console, pre>>

\* The blocks writeFile hands to its next write.
nextWrite(t) ==
    SubSeq(t.obfuscatedCode, t.position + 1,
           MathMin(t.position + kWriteFileMaxChunkSize, Len(t.obfuscatedCode)))

\* writeFile writes its next chunk at its own position in the file.
WriteChunk(i, k) ==
    /\ tasks[i][k].st = "truncated"
    /\ tasks[i][k].position < Len(tasks[i][k].obfuscatedCode)
    /\ fs' = [fs EXCEPT ![tasks[i][k].filePath] =
                  writeAt(@, tasks[i][k].position + 1, nextWrite(tasks[i][k]))]
    /\ Settle(i, k, [tasks[i][k] EXCEPT !.position = @ + Len(nextWrite(tasks[i][k]))])
    /\ UNCHANGED <<given, options, cur, result, console, pre>>

\* fs.writeFile completes: all of the text is written and the file is closed.
WriteFile(i, k) ==
    /\ tasks[i][k].st = "truncated"
    /\ tasks[i][k].position = Len(tasks[i][k].obfuscatedCode)
    /\ Settle(i, k, [tasks[i][k] EXCEPT !.st = "fulfilled"])
    /\ UNCHANGED <<given, options, fs, cur, result, console, pre>>

\* fs.writeFile fails: before the file was opened (content kept), after it
\* was truncated (content lost) or after some chunks were written (the
\* file holds what was written so far).
WriteFileFails(i, k) ==
    /\ tasks[i][k].st \in {"writing", "truncated"}
    /\ Settle(i, k, [tasks[i][k] EXCEPT !.st = "rejected", !.error = "write"])
    /\ UNCHANGED <<given, options, fs, cur, result, console, pre>>

Next ==
    \/ \E r \in Results : OnEnd(r)
    \/ \E i \in Invocations, k \in OutputKeys : ReadOpen(i, k)
    \/ \E i \in Invocations, k \in OutputKeys : ReadChunk(i, k)
    \/ \E i \in Invocations, k \in OutputKeys : ReadFile(i, k)
    \/ \E i \in Invocations, k \in OutputKeys : ReadFileFails(i, k)
    \/ \E i \in Invocations, k \in OutputKeys : Obfuscate(i, k)
    \/ \E i \in Invocations, k \in OutputKeys : WriteOpen(i, k)
    \/ \E i \in Invocations, k \in OutputKeys : WriteChunk(i, k)
    \/ \E i \in Invocations, k \in OutputKeys : WriteFile(i, k)
    \/ \E i \in Invocations, k \in OutputKeys : WriteFileFails(i, k)

Spec == Init /\ [][Next]_vars

\* A watch session: the hook registered once is called at the end of every
\* rebuild. The plugin is created without an argument, the manifests name
\* two scripts and a stylesheet; one script is short or does not parse, the
\* other is empty.
RebuildResults ==
    {r \in Results : r.metafile.outputs \subseteq {KeyA, KeyDirB, KeyCss}}

RebuildInit ==
    /\ given = "undefined"
    /\ options = defaultOptions(given)
    /\ fs \in {f \in [Files -> {Empty, Short, Source, Broken}] :
                 /\ f[pathResolve(KeyA)] \in {Short, Broken}
                 /\ f[pathResolve(KeyDirB)] = Empty
                 /\ \A p \in Files \ {pathResolve(KeyA), pathResolve(KeyDirB)} :
                       f[p] = Source}
    /\ cur = 0
    /\ result = NoResult
    /\ hook = "notcalled"
    /\ tasks = [i \in 1 .. MaxRebuilds |-> [k \in OutputKeys |-> NoTask]]
    /\ console = <<>>
    /\ pre = fs

RebuildNext ==
    \/ \E r \in RebuildResults : OnEnd(r)
    \/ \E i \in Invocations, k \in OutputKeys : ReadOpen(i, k)
    \/ \E i \in Invocations, k \in OutputKeys : ReadChunk(i, k)
    \/ \E i \in Invocations, k \in OutputKeys : ReadFile(i, k)
    \/ \E i \in Invocations, k \in OutputKeys : ReadFileFails(i, k)
    \/ \E i \in Invocations, k \in OutputKeys : Obfuscate(i, k)
    \/ \E i \in Invocations, k \in OutputKeys : WriteOpen(i, k)
    \/ \E i \in Invocations, k \in OutputKeys : WriteChunk(i, k)
    \/ \E i \in Invocations, k \in OutputKeys : WriteFile(i, k)
    \/ \E i \in Invocations, k \in OutputKeys : WriteFileFails(i, k)

RebuildSpec == RebuildInit /\ [][RebuildNext]_vars

\* Every file read, transform call and file write that was issued returns
\* or fails: a pending task takes its next step.
TaskStep ==
    \E i \in Invocations, k \in OutputKeys :
        \/ ReadOpen(i, k)
        \/ ReadChunk(i, k)
        \/ ReadFile(i, k)
        \/ ReadFileFails(i, k)
        \/ Obfuscate(i, k)
        \/ WriteOpen(i, k)
        \/ WriteChunk(i, k)
        \/ WriteFile(i, k)
        \/ WriteFileFails(i, k)

FairSpec == Spec /\ WF_vars(TaskStep)

TypeOK ==
    /\ cur \in 0 .. Cardinality(Invocations)
    /\ hook \in {"notcalled", "awaiting", "resolved", "rejected"}
    /\ \A i \in Invocations, k \in OutputKeys :
          tasks[i][k].st \in {"none"} \cup Pending \cup Settled

\* ------------------------------------------------------------- properties

\* The last three characters of a key are '.', 'j', 's'.
EndsInDotJs(k) ==
    /\ Len(k) >= 3
    /\ k[Len(k) - 2] = "."
    /\ k[Len(k) - 1] = "j"
    /\ k[Len(k)] = "s"

\* The invocation made no file read, no transform call and no file write.
NoFileOperation(i) == \A k \in OutputKeys : tasks[i][k] = NoTask

\* The latest onEnd call was made for a build without errors that carries a
\* manifest.
PassedBothChecks ==
    cur > 0 /\ Len(result.errors) = 0 /\ result.metafile.defined

\* C1: a build outcome with a non-empty error list makes the hook do
\* nothing: no read, no transform, no write, no diagnostic, and the hook
\* resolves; the error check comes before the missing-manifest check.
BuildErrorsSkipEverything ==
    (cur > 0 /\ Len(result.errors) # 0) =>
        /\ NoFileOperation(cur)
        /\ console = <<>>
        /\ hook = "resolved"

\* A failed build without a manifest was handled.
BuildErrorsWithoutMetafile ==
    /\ cur > 0
    /\ Len(result.errors) # 0
    /\ ~result.metafile.defined
    /\ hook = "resolved"

\* C2: a build outcome without errors and without manifest makes the hook
\* emit the fixed diagnostic exactly once, start no file operation, leave
\* every file as it is and resolve.
MissingMetafileLogsOnce ==
    [][(cur' > 0 /\ Len(result'.errors) = 0 /\ ~result'.metafile.defined) =>
          /\ console' = <<MetafileMessage>>
          /\ \A k \in OutputKeys : tasks'[cur'][k] = NoTask
          /\ hook' = "resolved"
          /\ cur' # cur => fs' = fs]_vars

\* A build without errors and without manifest was handled.
MetafileMissing ==
    /\ cur > 0
    /\ Len(result.errors) = 0
    /\ ~result.metafile.defined
    /\ Len(console) = 1
    /\ hook = "resolved"

\* C3: at the step at which the hook of a build without errors resolves,
\* every manifest key ending in '.js' names a file that holds the transform
\* of the content it had when the hook was called.
ResolvedFilesHoldTransform ==
    [][(/\ cur' > 0
        /\ hook' = "resolved"
        /\ (cur' # cur \/ hook # "resolved")
        /\ Len(result'.errors) = 0
        /\ result'.metafile.defined) =>
          \A k \in result'.metafile.outputs :
              EndsInDotJs(k) =>
                  fs'[pathResolve(k)] = obfuscate(pre'[pathResolve(k)], options)]_vars

\* C4: a key that does not end in '.js' is never read, transformed or
\* written: its promise makes no file operation, no task works on its file,
\* and the file holds what it held when the hook was called.
OtherSuffixUntouched ==
    \A k \in OutputKeys :
        ~EndsInDotJs(k) =>
            /\ \A i \in Invocations :
                  /\ tasks[i][k].st \in {"none", "fulfilled"}
                  /\ tasks[i][k].reads = 0
                  /\ tasks[i][k].calls = 0
                  /\ tasks[i][k].writes = 0
                  /\ \A k2 \in OutputKeys :
                        tasks[i][k2].reads > 0 =>
                            tasks[i][k2].filePath # pathResolve(k)
            /\ fs[pathResolve(k)] = pre[pathResolve(k)]

\* A stylesheet and a script in one manifest, the script rewritten.
StylesheetBesideRewrittenScript ==
    /\ PassedBothChecks
    /\ {KeyA, KeyCss} \subseteq result.metafile.outputs
    /\ tasks[cur][KeyA].st = "fulfilled"
    /\ fs[pathResolve(KeyA)] # pre[pathResolve(KeyA)]
    /\ hook = "resolved"

\* C5: when a task of the invocation has failed, the hook of that invocation
\* is rejected; it is never resolved with a failed task.
TaskFailureRejectsHook ==
    (cur > 0 /\ \E k \in OutputKeys : tasks[cur][k].st = "rejected") =>
        hook = "rejected"

\* The transform threw for one file and the hook is rejected.
TransformThrewHookRejected ==
    /\ PassedBothChecks
    /\ \E k \in OutputKeys : tasks[cur][k].error = "transform"
    /\ hook = "rejected"

\* C6: when the hook is resolved, no task of that invocation is pending:
\* every task started for a key ending in '.js' has completed its write.
ResolvedHookHasNoPendingTask ==
    hook = "resolved" =>
        \A k \in OutputKeys :
            /\ tasks[cur][k].st \notin Pending
            /\ tasks[cur][k].reads > 0 =>
                  (tasks[cur][k].st = "fulfilled" /\ tasks[cur][k].writes = 1)

\* Two scripts were both written and the hook resolved.
TwoScriptsWrittenHookResolved ==
    /\ PassedBothChecks
    /\ result.metafile.outputs = {KeyA, KeyDirB}
    /\ tasks[cur][KeyA].st = "fulfilled"
    /\ tasks[cur][KeyDirB].st = "fulfilled"
    /\ hook = "resolved"

\* C7: once the hook of an invocation has settled, resolved or rejected, no
\* task of that invocation is still in flight.
NoTaskOutlivesHook ==
    hook \in {"resolved", "rejected"} =>
        \A k \in OutputKeys : tasks[cur][k].st \notin Pending

\* C8: a file a task of the invocation has written is not changed by the
\* step of another task of the same invocation, and a task whose read or
\* transform fails leaves the files as they are.
CompletedWritesKept ==
    [][\A i \in Invocations, k \in OutputKeys :
          /\ (/\ tasks[i][k].st = "fulfilled"
              /\ tasks[i][k].writes = 1
              /\ \E k2 \in OutputKeys \ {k} : tasks'[i][k2] # tasks[i][k2]) =>
                 fs'[tasks[i][k].filePath] = fs[tasks[i][k].filePath]
          /\ (/\ tasks[i][k].st \in {"reading", "opened", "read"}
              /\ tasks'[i][k].st = "rejected") =>
                 fs' = fs]_vars

\* C9: two different keys ending in '.js' of one invocation are read and
\* written at different absolute paths.
TasksTouchDistinctPaths ==
    \A i \in Invocations, k1 \in OutputKeys, k2 \in OutputKeys :
        (k1 # k2 /\ tasks[i][k1].reads > 0 /\ tasks[i][k2].reads > 0) =>
            tasks[i][k1].filePath # tasks[i][k2].filePath

\* The blocks a file has from position pos on, n at most.
BlocksAt(file, pos, n) ==
    [j \in 1 .. (IF Len(file) - pos < n
                 THEN (IF Len(file) > pos THEN Len(file) - pos ELSE 0)
                 ELSE n) |-> file[pos + j]]

\* C10: a task reads, then transforms, then writes: the read takes its
\* text, buffer after buffer, from the file at the resolved path of the key
\* and changes no file, the transform runs only on a read that has made its
\* last read and gets the text that read holds, the write starts only with
\* the result of the transform, truncates and then fills the path that was
\* read, chunk by chunk with that result, and completes only when all of
\* it is written; each key is read and written at most once, and nothing
\* is written after a failed read or transform.
TaskStepsInOrder ==
    [][\A i \in Invocations, k \in OutputKeys :
          LET t == tasks[i][k]
              u == tasks'[i][k]
              file == fs[pathResolve(k)]
          IN  /\ u.reads <= 1 /\ u.calls <= 1 /\ u.writes <= 1
              /\ u.reads > 0 => u.filePath = pathResolve(k)
              /\ (t.st = "reading" /\ u.st = "opened") =>
                    (u.code = <<>> /\ u.size = Len(file) /\ fs' = fs)
              /\ (t.st = "opened" /\ u.st \in {"opened", "read"} /\ u # t) =>
                    /\ fs' = fs
                    /\ \E n \in 1 .. kReadFileBufferLength :
                          /\ n = (IF t.size = 0 THEN kReadFileUnknownBufferLength
                                  ELSE IF t.size < kReadFileBufferLength THEN t.size
                                  ELSE kReadFileBufferLength)
                          /\ u.code = t.code \o BlocksAt(file, Len(t.code), n)
                          /\ u.st = "read" <=>
                                \/ u.code = t.code
                                \/ Len(u.code) = t.size
                                \/ (t.size # 0 /\ Len(u.code) < Len(t.code) + n)
              /\ u.st = "read" => t.st \in {"opened", "read"}
              /\ u.calls > t.calls =>
                    (t.st = "read" /\ u.code = t.code /\ fs' = fs)
              /\ u.writes > t.writes =>
                    /\ u.calls > t.calls
                    /\ ~obfuscateThrows(t.code, options)
                    /\ u.obfuscatedCode = obfuscate(t.code, options)
                    /\ u.position = 0
              /\ (t.st = "writing" /\ u.st = "truncated") =>
                    fs' = [fs EXCEPT ![pathResolve(k)] = Empty]
              /\ u.position > t.position =>
                    /\ t.st = "truncated"
                    /\ u.position <= t.position + kWriteFileMaxChunkSize
                    /\ u.position = Len(obfuscate(t.code, options))
                          \/ u.position = t.position + kWriteFileMaxChunkSize
                    /\ Len(fs'[pathResolve(k)]) >= u.position
                    /\ \A j \in t.position + 1 .. u.position :
                          fs'[pathResolve(k)][j] = obfuscate(t.code, options)[j]
                    /\ \A p \in Files \ {pathResolve(k)} : fs'[p] = fs[p]
              /\ (t.st # "fulfilled" /\ u.st = "fulfilled" /\ u.reads > 0) =>
                    /\ t.st = "truncated"
                    /\ t.position = Len(obfuscate(t.code, options))
                    /\ fs' = fs
              /\ u.error \in {"read", "transform"} => u.writes = 0
              /\ (t.st \in {"reading", "opened", "read"} /\ u.st \in Settled) =>
                    (u.st = "rejected" /\ fs' = fs)]_vars

\* A task has read, transformed and written its file.
TaskWroteTransformOfRead ==
    \E i \in Invocations, k \in OutputKeys :
        /\ tasks[i][k].st = "fulfilled"
        /\ tasks[i][k].reads = 1
        /\ tasks[i][k].calls = 1
        /\ tasks[i][k].writes = 1
        /\ tasks[i][k].code # Empty
        /\ fs[tasks[i][k].filePath] = obfuscate(tasks[i][k].code, options)

\* The files as they are when every task of the latest call has read what
\* the call found on disk: the file of each manifest key ending in '.js'
\* holds the transform of that content, every other file is as it was.
FilesAfterAllTasks ==
    [p \in Files |->
        IF \E k \in result.metafile.outputs : EndsInDotJs(k) /\ pathResolve(k) = p
        THEN obfuscate(pre[p], options)
        ELSE pre[p]]

\* C11: the order of the task steps does not matter: whenever the hook of a
\* build without errors has resolved, so that no step has failed, the files
\* hold one and the same contents, fixed by the build result, the options
\* and the contents found at the call.
InterleavingImmaterial ==
    (PassedBothChecks /\ hook = "resolved") => fs = FilesAfterAllTasks

\* C12: the tasks of one call are started together and do not wait for each
\* other: once the hook is in its joint wait every manifest key ending in
\* '.js' has had its read issued, and a pending task can always take its
\* next step (its read opens, reads on, makes its last read or fails, its
\* transform runs, its write opens, writes on, completes or fails) whatever
\* state the other tasks are in.
TasksLaunchedTogether ==
    /\ PassedBothChecks =>
          \A k \in result.metafile.outputs :
              EndsInDotJs(k) => tasks[cur][k].reads = 1
    /\ \A i \in Invocations, k \in OutputKeys :
          /\ tasks[i][k].st = "reading" =>
                ENABLED ReadOpen(i, k) /\ ENABLED ReadFileFails(i, k)
          /\ tasks[i][k].st = "opened" =>
                /\ ENABLED (ReadChunk(i, k) \/ ReadFile(i, k))
                /\ ENABLED ReadFileFails(i, k)
          /\ tasks[i][k].st = "read" =>
                ENABLED Obfuscate(i, k) /\ ENABLED ReadFileFails(i, k)
          /\ tasks[i][k].st = "writing" =>
                ENABLED WriteOpen(i, k) /\ ENABLED WriteFileFails(i, k)
          /\ tasks[i][k].st = "truncated" =>
                /\ ENABLED (WriteChunk(i, k) \/ WriteFile(i, k))
                /\ ENABLED WriteFileFails(i, k)

\* One task has completed its write while the read of another task of the
\* same call is still pending.
WrittenWhileOtherStillReading ==
    /\ hook = "awaiting"
    /\ \E k, l \in result.metafile.outputs :
          /\ k # l
          /\ tasks[cur][k].st = "fulfilled"
          /\ tasks[cur][k].writes = 1
          /\ fs[tasks[cur][k].filePath] = tasks[cur][k].obfuscatedCode
          /\ tasks[cur][l].st = "reading"

\* C13: the options reach the transform as they were given: the value the
\* hook holds is the argument the plugin was created with, or the empty
\* mapping when there was none; no step changes it; and every transform
\* call that returns yields the transform of the text read under exactly
\* that value, for every key and every call of the hook.
OptionsForwardedVerbatim ==
    [][/\ options = (IF given = "undefined" THEN "{}" ELSE given)
       /\ options' = options
       /\ given' = given
       /\ \A i \in Invocations, k \in OutputKeys :
             (tasks'[i][k].calls > tasks[i][k].calls /\ tasks'[i][k].st = "writing")
                => tasks'[i][k].obfuscatedCode =
                      (IF tasks[i][k].code = Empty THEN Empty
                       ELSE <<IF given = "undefined" THEN "{}" ELSE given>>
                            \o tasks[i][k].code)]_vars

\* The plugin was created without an argument and two files of one call
\* have been rewritten under the empty mapping.
TwoFilesUnderGivenOptions ==
    /\ hook = "resolved"
    /\ \E k, l \in result.metafile.outputs :
          /\ tasks[cur][k].filePath # tasks[cur][l].filePath
          /\ tasks[cur][k].code # Empty
          /\ tasks[cur][l].code # Empty
          /\ fs[tasks[cur][k].filePath] = <<options>> \o tasks[cur][k].code
          /\ fs[tasks[cur][l].filePath] = <<options>> \o tasks[cur][l].code
    /\ given = "undefined"
    /\ options = "{}"

\* C14: a call of the hook does not depend on earlier calls: at every call,
\* the first or a later one, whether the diagnostic is written (once, for a
\* build without errors and without manifest), which keys get a task and
\* whether the hook waits are fixed by the build result of that call alone,
\* the call itself changes no file, and each read takes the size and the
\* blocks the file has at the moment of that read.
InvocationsStateless ==
    [][/\ cur' = cur + 1 =>
            LET r == result'
                missing == Len(r.errors) = 0 /\ ~r.metafile.defined
                fan == Len(r.errors) = 0 /\ r.metafile.defined
                scripts == IF fan THEN {k \in r.metafile.outputs : EndsInDotJs(k)}
                           ELSE {}
            IN  /\ console' = IF missing THEN <<MetafileMessage>> ELSE <<>>
                /\ \A k \in OutputKeys :
                      /\ tasks'[cur'][k].st =
                            IF k \in scripts THEN "reading"
                            ELSE IF fan /\ k \in r.metafile.outputs THEN "fulfilled"
                            ELSE "none"
                      /\ tasks'[cur'][k].reads = IF k \in scripts THEN 1 ELSE 0
                      /\ tasks'[cur'][k].calls = 0
                      /\ tasks'[cur'][k].writes = 0
                /\ hook' = IF scripts # {} THEN "awaiting" ELSE "resolved"
                /\ fs' = fs
       /\ \A i \in Invocations, k \in OutputKeys :
             LET t == tasks[i][k]
                 u == tasks'[i][k]
             IN  /\ (t.st = "reading" /\ u.st = "opened") =>
                       u.size = Len(fs[t.filePath])
                 /\ (t.st = "opened" /\ u.code # t.code /\ u.st # "rejected") =>
                       /\ Len(t.code) < Len(fs[t.filePath])
                       /\ Len(u.code) > Len(t.code)
                       /\ Len(u.code) <= Len(fs[t.filePath])
                       /\ \A j \in 1 .. Len(u.code) :
                             u.code[j] = IF j <= Len(t.code) THEN t.code[j]
                                         ELSE fs[t.filePath][j]]_vars

\* The second call of the hook has written the diagnostic and resolved,
\* while a task of the first call, which was rejected, is still pending.
DiagnosticAfterRejectedCall ==
    /\ cur = 2
    /\ console = <<MetafileMessage>>
    /\ hook = "resolved"
    /\ NoFileOperation(cur)
    /\ \E k \in OutputKeys : tasks[1][k].st \in Pending

\* C15: every call of the hook settles, once: a hook in its joint wait is
\* eventually resolved or rejected and, once settled, stays as it is; no
\* read, transform or write is issued a second time for a task and a
\* rejected task takes no further step; and for a manifest without a key
\* ending in '.js' the hook resolves having issued no file operation and no
\* diagnostic.
HookSettlesOnce ==
    /\ \A n \in 1 .. MaxRebuilds :
          (cur = n /\ hook = "awaiting")
             ~> (cur = n /\ hook \in {"resolved", "rejected"})
    /\ [][/\ (hook \in {"resolved", "rejected"} /\ cur' = cur) => hook' = hook
          /\ \A i \in Invocations, k \in OutputKeys :
                /\ tasks'[i][k].reads <= 1
                /\ tasks'[i][k].calls <= 1
                /\ tasks'[i][k].writes <= 1
                /\ tasks[i][k].st = "rejected" =>
                      tasks'[i][k] \in {tasks[i][k], NoTask}
          /\ (/\ cur' = cur + 1
              /\ Len(result'.errors) = 0
              /\ result'.metafile.defined
              /\ \A k \in result'.metafile.outputs : ~EndsInDotJs(k))
             => /\ hook' = "resolved"
                /\ console' = <<>>
                /\ fs' = fs
                /\ \A k \in OutputKeys :
                      /\ tasks'[cur'][k].st \in {"none", "fulfilled"}
                      /\ tasks'[cur'][k].reads = 0
                      /\ tasks'[cur'][k].calls = 0
                      /\ tasks'[cur'][k].writes = 0]_vars

\* The hook has settled after its joint wait: one write failed after the
\* file was opened, the hook is rejected, and every task of the call has
\* settled with each of its operations issued once.
HookSettledAfterFailedWrite ==
    /\ cur > 0
    /\ hook = "rejected"
    /\ \E k \in result.metafile.outputs :
          /\ tasks[cur][k].st = "rejected"
          /\ tasks[cur][k].error = "write"
          /\ tasks[cur][k].position > 0
          /\ tasks[cur][k].reads = 1
          /\ tasks[cur][k].calls = 1
          /\ tasks[cur][k].writes = 1
    /\ \A k \in OutputKeys : tasks[cur][k].st \in {"none"} \cup Settled
====
